---- MODULE Spec2Model ----
(***************************************************************************)
(* FeedbackHologram (slmsuite/holography/algorithms/_feedback.py): the     *)
(* camera-feedback hologram.  The model covers construction (device        *)
(* binding), the image transform ijcam_to_knmslm, the two-level            *)
(* measurement cache filled by measure, update_target, _update_weights     *)
(* and update_stats.                                                       *)
(*                                                                         *)
(* Images.  An image is a record [px, n2, rt] that stands for the array    *)
(* whose pixel p has the value (px[p] / sqrt(n2)) ^ (1 / 2^rt): px holds    *)
(* integers, n2 is the square of a common divisor (so that a division by   *)
(* an L2 norm stays exact) and rt counts the square roots taken (so that   *)
(* numpy.sqrt and numpy.square are exact and are not the identity).        *)
(* n2 = 0 marks an array of NaN (the result of multiplying by 1/0).        *)
(***************************************************************************)
EXTENDS Integers, Sequences, FiniteSets, TLC

\* ------------------------------------------------------------- bounds
\* Largest intensity a camera pixel or a target pixel takes.
MaxPix == 2
\* Weight updates between two resets of the weights.
MaxUpdates == 1

\* ------------------------------------------------------- shapes, pixels
\* Computational shape (self.shape) and the camera's shape, numpy (h, w).
shape == <<2, 2>>
cam_shape_of_cam == <<2, 2>>

Pixels(shp) == (0 .. shp[1] - 1) \X (0 .. shp[2] - 1)

\* ----------------------------------------------------------- arithmetic
Abs(x) == IF x < 0 THEN -x ELSE x
Max(a, b) == IF a > b THEN a ELSE b
\* F of the value v, which is computed once however often F uses it.
With(v, F(_)) == F(v)

RECURSIVE Gcd(_, _)
Gcd(a, b) == IF b = 0 THEN a ELSE Gcd(b, a % b)

RECURSIVE SumOver(_, _)
SumOver(f, S) ==
    IF S = {} THEN 0
    ELSE LET p == CHOOSE q \in S : TRUE IN f[p] + SumOver(f, S \ {p})

RECURSIVE GcdOver(_, _)
GcdOver(f, S) ==
    IF S = {} THEN 0
    ELSE LET p == CHOOSE q \in S : TRUE IN Gcd(Abs(f[p]), GcdOver(f, S \ {p}))

\* ---------------------------------------------------------------- images
\* Python's None, as a value comparable with an image.
None == [px |-> <<>>, n2 |-> -1, rt |-> 0]

Img(px) == [px |-> px, n2 |-> 1, rt |-> 0]
NaNImg(shp) == [px |-> [p \in Pixels(shp) |-> 0], n2 |-> 0, rt |-> 0]
Zeros(shp) == Img([p \in Pixels(shp) |-> 0])

\* The same array with px and n2 in lowest terms: px / g and n2 / g^2 for
\* the largest g that divides every pixel and whose square divides n2.
Reduce(img) ==
    IF img.n2 <= 0 THEN img
    ELSE LET G == GcdOver(img.px, DOMAIN img.px)
         IN IF G = 0 THEN [img EXCEPT !.n2 = 1]
            ELSE LET g == CHOOSE d \in 1 .. G :
                              /\ G % d = 0 /\ img.n2 % (d * d) = 0
                              /\ \A e \in (d + 1) .. G :
                                    ~(G % e = 0 /\ img.n2 % (e * e) = 0)
                 IN [img EXCEPT !.px = [p \in DOMAIN img.px |-> img.px[p] \div g],
                                !.n2 = img.n2 \div (g * g)]

\* numpy.sqrt / cupy.sqrt, elementwise.
Sqrt(img) == [img EXCEPT !.rt = img.rt + 1]

\* numpy.square, elementwise.
Square(img) ==
    IF img.rt > 0 THEN [img EXCEPT !.rt = img.rt - 1]
    ELSE Reduce([img EXCEPT !.px = [p \in DOMAIN img.px |-> img.px[p] * img.px[p]],
                            !.n2 = img.n2 * img.n2])

\* cupy.abs, elementwise (an image under a root is non-negative already).
ImgAbs(img) ==
    IF img.rt > 0 THEN img
    ELSE [img EXCEPT !.px = [p \in DOMAIN img.px |-> Abs(img.px[p])]]

RECURSIVE SquareTimes(_, _)
SquareTimes(img, k) == IF k = 0 THEN img ELSE SquareTimes(Square(img), k - 1)

\* Two non-negative images hold the same numbers (whatever their form).
SameImage(a, b) ==
    IF a = None \/ b = None THEN a = b
    ELSE LET m == Max(a.rt, b.rt)
         IN Reduce(SquareTimes(ImgAbs(a), m)) = Reduce(SquareTimes(ImgAbs(b), m))

\* ------------------------------------------------- 2-vectors, matrices
\* A 2-vector is <<x, y>>; a 2x2 matrix is the pair of its rows.
MatVec(M, v) == <<M[1][1] * v[1] + M[1][2] * v[2], M[2][1] * v[1] + M[2][2] * v[2]>>
MatMul(A, B) ==
    <<<<A[1][1] * B[1][1] + A[1][2] * B[2][1], A[1][1] * B[1][2] + A[1][2] * B[2][2]>>,
      <<A[2][1] * B[1][1] + A[2][2] * B[2][1], A[2][1] * B[1][2] + A[2][2] * B[2][2]>>>>
VecAdd(u, v) == <<u[1] + v[1], u[2] + v[2]>>
VecSub(u, v) == <<u[1] - v[1], u[2] - v[2]>>
Diag(v) == <<<<v[1], 0>>, <<0, v[2]>>>>
\* numpy.flip of a 2-vector, and of a matrix along both axes.
FlipVec(v) == <<v[2], v[1]>>
FlipBoth(M) == <<<<M[2][2], M[2][1]>>, <<M[1][2], M[1][1]>>>>
Identity2 == <<<<1, 0>>, <<0, 1>>>>

\* ----------------------------------------------------------- calibration
\* cameraslm.fourier_calibration: {M, b, a} or None.  The kxy unit is one
\* computational pixel, so that every composite map is over the integers.
NoCalibration == [M |-> <<>>, b |-> <<>>, a |-> <<>>]
Calibrations ==
    { [M |-> Identity2, b |-> <<2, 1>>, a |-> <<1, 0>>],    \* camera = grid
      [M |-> Identity2, b |-> <<1, 0>>, a |-> <<0, 0>>] }   \* shifted by one row

\* toolbox.convert_vector((1,1), "knm", "kxy") - convert_vector((0,0), ...):
\* the kxy length of one computational pixel, along x and y.
conversion == <<1, 1>>

M1 == Diag(conversion)
b1 == MatVec(M1, <<-(shape[2] \div 2), -(shape[1] \div 2)>>)
M2(cal) == cal.M
b2(cal) == VecSub(cal.b, MatVec(cal.M, cal.a))
CompositeM(cal) == FlipBoth(MatMul(M2(cal), M1))
Compositeb(cal) == FlipVec(VecAdd(MatVec(M2(cal), b1), b2(cal)))

\* ------------------------------------------------------------- resampling
\* cp_affine_transform(input, matrix, offset, output_shape, order,
\* mode="constant", cval=0): output pixel o samples the input at
\* matrix.o + offset; outside the input the sample is 0.  Every map of
\* Calibrations sends pixels to pixels, where interpolation of any order
\* returns the sample itself.
cp_affine_transform(input, matrix, offset, output_shape, order) ==
    [input EXCEPT !.px =
        [o \in Pixels(output_shape) |->
            LET q == VecAdd(MatVec(matrix, o), offset)
            IN IF q \in DOMAIN input.px THEN input.px[q] ELSE 0]]

\* sp_gaussian_filter(img, (blur, blur), truncate=2), scipy's "reflect"
\* boundary.  The Gaussian weights are taken as the binomial (1 2 1)/4 along
\* each axis for blur = 1 (radius blur in general, weights by distance).
Reflect(i, n) == IF i < 0 THEN -i - 1 ELSE IF i >= n THEN 2 * n - 1 - i ELSE i
Weight(d, blur) == IF d = 0 THEN 2 ELSE 1
Blur1(px, shp, axis, blur) ==
    [p \in Pixels(shp) |->
        SumOver([d \in -blur .. blur |->
                    Weight(d, blur) *
                    px[IF axis = 1 THEN <<Reflect(p[1] + d, shp[1]), p[2]>>
                                   ELSE <<p[1], Reflect(p[2] + d, shp[2])>>]],
                -blur .. blur)]
KernelSum(blur) == SumOver([d \in -blur .. blur |-> Weight(d, blur)], -blur .. blur)
sp_gaussian_filter(img, blur, shp) ==
    LET k == KernelSum(blur) * KernelSum(blur)
    IN Reduce([img EXCEPT !.px = Blur1(Blur1(img.px, shp, 1, blur), shp, 2, blur),
                          !.n2 = img.n2 * k * k])

\* Hologram._norm(target) == 0, and target *= 1 / norm (the L2 norm): the
\* pixels over the root of the sum of their squares, or NaN when it is 0.
SumSq(px) == SumOver([p \in DOMAIN px |-> px[p] * px[p]], DOMAIN px)
NormIsZero(img) == \A p \in DOMAIN img.px : img.px[p] = 0
ScaleByInverseNorm(img) ==
    IF NormIsZero(img) THEN [img EXCEPT !.n2 = 0]
    ELSE LET G == GcdOver(img.px, DOMAIN img.px)
             q == [p \in DOMAIN img.px |-> img.px[p] \div G]
         IN [img EXCEPT !.px = q, !.n2 = SumSq(q)]
\* The total power of an image: the square of Hologram._norm, as <<num, den>>.
Power(img) == <<SumSq(img.px), img.n2>>

\* ------------------------------------------------------ ijcam_to_knmslm
\* Exceptions, by the class and the place that raises them.
NoError == "none"
AssertionError == "AssertionError"                       \* lines 142-143
NoPowerError == "ValueError: No power in hologram"       \* lines 198-202
CameraSLMError == "ValueError: Expected a CameraSLM or SLM"   \* line 70
KeyError == "KeyError"                                   \* flags["feedback"]
IOError == "IOError"                                     \* raised by a device
NotImplementedError == "NotImplementedError"             \* line 279
AttributeError == "AttributeError"                       \* None.slm, None.cam
TypeError == "TypeError"                                 \* amp given twice

\* The blur radius in effect: the argument (<<>> is None, <<n>> is n), else
\* the "blur_ij" flag, else zero.
BlurInEffect(flags, blur_ij) ==
    IF blur_ij # <<>> THEN blur_ij[1]
    ELSE IF "blur_ij" \in DOMAIN flags THEN flags["blur_ij"]
    ELSE 0

\* The asserts of lines 142-143 fail.
NotCalibrated(cameraslm, cal) == cameraslm = "None" \/ cal = NoCalibration

\* Mutant: the output buffer is cleared before the asserts are reached.
Rejected_after_clearing(img, out) ==
    [err |-> AssertionError, ret |-> None, img |-> img,
     out |-> IF out = None THEN None ELSE Zeros(shape)]

\* What a call that fails its asserts leaves: nothing is written.
Rejected(img, out) == [err |-> AssertionError, ret |-> None, img |-> img, out |-> out]

\* Lines 164-173: the input after the optional blur, which the Gaussian
\* filter writes back into the input array (output=img).
Blurred(flags, img, blur_ij) ==
    LET blur == BlurInEffect(flags, blur_ij)
    IN IF blur > 0 THEN sp_gaussian_filter(img, blur, cam_shape_of_cam) ELSE img

\* Lines 145-162 and 175-188: the magnitude of the (blurred) input,
\* resampled into the computational shape by the composite affine map.
Resampled(cal, flags, img, blur_ij, order) ==
    cp_affine_transform(ImgAbs(Blurred(flags, img, blur_ij)),
                        CompositeM(cal), Compositeb(cal), shape, order)

\* Mutant: the check of the norm is missing.
NoPower_unchecked(resampled) == FALSE

\* Lines 198-202: the check that raises "No power in hologram".
NoPower(resampled) == NormIsZero(resampled)

\* ijcam_to_knmslm(img, out, blur_ij, order) on an instance with the given
\* cameraslm, calibration and flags.  The result names the exception raised
\* (err), the array returned (ret), and what the call leaves in the caller's
\* input array (img) and in the buffer passed as out (None: no buffer).
ijcam_to_knmslm(cameraslm, cal, flags, img, out, blur_ij, order) ==
    IF NotCalibrated(cameraslm, cal) THEN Rejected(img, out)
    ELSE
      With(Resampled(cal, flags, img, blur_ij, order), LAMBDA resampled :
      With(ScaleByInverseNorm(ImgAbs(resampled)), LAMBDA target :
        [err |-> IF NoPower(resampled) THEN NoPowerError ELSE NoError,
         ret |-> IF NoPower(resampled) THEN None ELSE target,
         img |-> Blurred(flags, img, blur_ij),
         out |-> IF out = None THEN None ELSE target]))

\* ------------------------------------------------------------------ state
VARIABLES
    pc,                  \* "ready": constructed; "failed": __init__ raised
    cameraslm,           \* self.cameraslm: "FourierSLM" or "None"
    fourier_calibration, \* self.cameraslm.fourier_calibration
    cam_points,          \* self.cam_points
    cam_shape,           \* self.cam_shape
    flags,               \* self.flags
    target_ij,           \* self.target_ij
    target,              \* self.target
    weights,             \* self.weights
    img_ij,              \* self.img_ij
    img_knm,             \* self.img_knm
    captures,            \* frames got from the camera since the caches were cleared
    frame_got,           \* the last of them (None: none)
    ret                  \* the last call: its arguments, exception, device calls

vars == <<pc, cameraslm, fourier_calibration, cam_points, cam_shape, flags,
          target_ij, target, weights, img_ij, img_knm, captures, frame_got, ret>>

\* ----------------------------------------------------------------- inputs
\* A frame (or a target) with one lit pixel.
HotFrame(p, v) == Img([q \in Pixels(cam_shape_of_cam) |-> IF q = p THEN v ELSE 0])
HotPixels == {<<0, 0>>, <<1, 1>>}
Frames == {HotFrame(p, MaxPix) : p \in HotPixels} \cup {HotFrame(<<0, 0>>, 1)}
Targets == {HotFrame(p, MaxPix) : p \in HotPixels}
\* The target_ij a caller constructs with.
TargetIJs == {None, HotFrame(<<1, 1>>, MaxPix)}
\* The frame get_image returns matters only when no device call fails.
FramesFor(fail) == IF fail = 0 THEN Frames ELSE {HotFrame(<<0, 0>>, 1)}

\* What the caller passes as cameraslm.
CameraSLMArgs == {"None", "FourierSLM", "SLM", "object"}
\* The keyword arguments that __init__ reads.
KwargSets == SUBSET {"amp", "slm_shape"}
\* self.flags, as the caller (Hologram.optimize) sets it.
FeedbackModes == {"computational", "experimental", "experimental_spot"}
FlagSets ==
    {[k \in {} |-> 0]}
    \cup {[feedback |-> f] : f \in FeedbackModes \ {"experimental"}}
    \cup {[feedback |-> "experimental", blur_ij |-> n] : n \in 0 .. 1}
StatGroups == { {}, {"experimental_knm"}, {"experimental_ij"}, {"experimental"},
                {"experimental_knm", "experimental_ij"},
                {"computational", "experimental_typo"} }

\* The bases refine_offset is documented for, lines 267-271.
Bases == {"ij", "kxy", "knm"}
\* The simulated far-field amplitude self.amp_ff of the current iteration.
amp_ff == Img([q \in Pixels(shape) |-> 1])

\* The record of a call.
Call(op, arg) ==
    [op |-> op, arg |-> arg, err |-> NoError, io |-> <<>>,
     pre_ij |-> FALSE, pre_knm |-> FALSE,
     generic |-> <<>>, super |-> <<>>, input |-> None, result |-> None,
     out |-> None, written |-> <<>>, transform |-> <<>>]

\* No call is in progress and the last one has returned to the caller.
Idle == Call("idle", <<>>)

\* self.weights is the number of updates made since the weights were reset.
\* Hologram.reset_weights().
reset_weights == 0
\* Hologram._update_weights_generic(weights, feedback_amp, target_amp).
_update_weights_generic(w, feedback_amp, target_amp) == w + 1

\* ---------------------------------------------------------------- methods
\* Each method is an operator from the fields it reads (and its inputs) to
\* the fields it leaves behind, the exception it raises and what it called.

\* Mutant: the image is taken before the pattern is written.
DeviceCalls_image_first == <<"cam.get_image()", "slm.write(settle=True)", "cam.flush()">>

\* The device calls of one capture in the order of lines 226-228.
DeviceCalls == <<"slm.write(settle=True)", "cam.flush()", "cam.get_image()">>
\* Mutant: the device call that raised is made a second time.
CallsUntil_retry(fail) ==
    IF fail = 0 THEN DeviceCalls
    ELSE SubSeq(DeviceCalls, 1, fail) \o <<DeviceCalls[fail]>>

\* The device calls made when the call named by fail raises (0: none does).
CallsUntil(fail) == IF fail = 0 THEN DeviceCalls ELSE SubSeq(DeviceCalls, 1, fail)

\* Mutant: update_target leaves the order at the default of ijcam_to_knmslm.
TargetOrder_default == 3

\* The interpolation order update_target asks for, line 245.
TargetOrder == 0

\* update_target(new_target, reset_weights), lines 243-251.  transform is
\* the buffer and the order it hands to ijcam_to_knmslm.
update_target(cs, cal, fl, tgt, w, new_target, reset) ==
    With(ijcam_to_knmslm(cs, cal, fl, new_target, tgt, <<>>, TargetOrder), LAMBDA r :
        [err |-> r.err,
         target |-> r.out,
         weights |-> IF r.err = NoError /\ reset THEN reset_weights ELSE w,
         input |-> r.img,
         transform |-> [out |-> "self.target", order |-> TargetOrder]])

\* Mutant: refine_offset returns without doing anything.
refine_offset_noop(img, basis) == [err |-> NoError]

\* refine_offset(img, basis), lines 253-279: it raises whatever it is given.
refine_offset(img, basis) == [err |-> NotImplementedError]

\* Mutant: the frame is kept in a local and stored in self.img_ij only on
\* the "ij" path.
FreshCapture_local(cs, cal, fl, knm, basis, frame, fail) ==
    LET same == [err |-> NoError, img_ij |-> None, img_knm |-> knm,
                 io |-> <<>>, got |-> FALSE]
    IN
    IF cs = "None" THEN [same EXCEPT !.err = AttributeError]
    ELSE IF fail # 0 THEN [same EXCEPT !.err = IOError, !.io = CallsUntil(fail)]
    ELSE IF basis = "knm" THEN
        With(ijcam_to_knmslm(cs, cal, fl, frame, knm, <<>>, 3), LAMBDA r :
           IF r.err # NoError
           THEN [err |-> r.err, img_ij |-> None, img_knm |-> r.out,
                 io |-> DeviceCalls, got |-> TRUE]
           ELSE [err |-> NoError, img_ij |-> None, img_knm |-> Sqrt(r.ret),
                 io |-> DeviceCalls, got |-> TRUE])
    ELSE [err |-> NoError, img_ij |-> Sqrt(frame), img_knm |-> None,
          io |-> DeviceCalls, got |-> TRUE]

\* measure(basis) with nothing cached, lines 225-236.  frame is what
\* cam.get_image() returns and fail the device call that raises (1 write,
\* 2 flush, 3 get_image, 0 none).
FreshCapture(cs, cal, fl, knm, basis, frame, fail) ==
    LET same == [err |-> NoError, img_ij |-> None, img_knm |-> knm,
                 io |-> <<>>, got |-> FALSE]
    IN
    IF cs = "None" THEN [same EXCEPT !.err = AttributeError]
    ELSE IF fail # 0 THEN [same EXCEPT !.err = IOError, !.io = CallsUntil(fail)]
    ELSE IF basis = "knm" THEN
        With(ijcam_to_knmslm(cs, cal, fl, frame, knm, <<>>, 3), LAMBDA r :
           IF r.err # NoError
           THEN [err |-> r.err, img_ij |-> r.img, img_knm |-> r.out,
                 io |-> DeviceCalls, got |-> TRUE]
           ELSE [err |-> NoError, img_ij |-> Sqrt(r.img), img_knm |-> Sqrt(r.ret),
                 io |-> DeviceCalls, got |-> TRUE])
    ELSE [err |-> NoError, img_ij |-> Sqrt(frame), img_knm |-> None,
          io |-> DeviceCalls, got |-> TRUE]

\* Mutant: the image computed from the cached img_ij is not stored.
FromCache_discarded(cs, cal, fl, ij, knm) ==
    [err |-> NoError, img_ij |-> ij, img_knm |-> knm, io |-> <<>>, got |-> FALSE]

\* measure("knm") with img_ij cached and img_knm absent, lines 237-240.
FromCache(cs, cal, fl, ij, knm) ==
    LET same == [err |-> NoError, img_ij |-> ij, img_knm |-> knm,
                 io |-> <<>>, got |-> FALSE]
    IN With(ijcam_to_knmslm(cs, cal, fl, Square(ij), knm, <<>>, 3), LAMBDA r :
          IF r.err # NoError THEN [same EXCEPT !.err = r.err]
          ELSE [same EXCEPT !.img_knm = Sqrt(r.ret)])

\* Mutant: the "ij" basis always takes a new frame.
NeedsCapture_ij_always(ij, basis) == ij = None \/ basis = "ij"

\* A fresh frame is needed, line 225.
NeedsCapture(ij, basis) == ij = None

\* Mutant: every measure call takes a new frame.
measure_uncached(cs, cal, fl, ij, knm, basis, frame, fail) ==
    FreshCapture(cs, cal, fl, knm, basis, frame, fail)

\* measure(basis), lines 207-240.
measure(cs, cal, fl, ij, knm, basis, frame, fail) ==
    IF NeedsCapture(ij, basis) THEN FreshCapture(cs, cal, fl, knm, basis, frame, fail)
    ELSE IF basis = "knm" /\ knm = None THEN FromCache(cs, cal, fl, ij, knm)
    ELSE [err |-> NoError, img_ij |-> ij, img_knm |-> knm, io |-> <<>>, got |-> FALSE]

\* Mutant: the experimental feedback asks for the camera basis only.
ExperimentalBasis_ij == "ij"

\* The basis _update_weights asks measure for, line 292.
ExperimentalBasis == "knm"

\* Mutant: the computational feedback is taken from the cached image.
ComputationalAmp_cached(knm) == knm

\* The amplitude the computational feedback compares with the target,
\* line 290.
ComputationalAmp(knm) == amp_ff

\* _update_weights(), lines 282-293.
_update_weights(cs, cal, fl, tgt, w, ij, knm, frame, fail) ==
    LET same == [err |-> NoError, weights |-> w, img_ij |-> ij, img_knm |-> knm,
                 io |-> <<>>, got |-> FALSE, generic |-> <<>>]
    IN
    IF "feedback" \notin DOMAIN fl THEN [same EXCEPT !.err = KeyError]
    ELSE IF fl["feedback"] = "computational"
    THEN [same EXCEPT
            !.weights = _update_weights_generic(w, ComputationalAmp(knm), tgt),
            !.generic = <<ComputationalAmp(knm), tgt>>]
    ELSE IF fl["feedback"] = "experimental"
    THEN With(measure(cs, cal, fl, ij, knm, ExperimentalBasis, frame, fail), LAMBDA m :
            [same EXCEPT
               !.err = m.err, !.img_ij = m.img_ij, !.img_knm = m.img_knm,
               !.io = m.io, !.got = m.got,
               !.weights = IF m.err # NoError THEN w
                           ELSE _update_weights_generic(w, m.img_knm, tgt),
               !.generic = IF m.err # NoError THEN <<>> ELSE <<m.img_knm, tgt>>])
    ELSE same

\* Hologram._calculate_stats(feedback_amp, target_amp, raw=...): the record
\* of one group, by what it was computed from.
_calculate_stats(feedback_amp, target_amp, raw) ==
    [amp |-> feedback_amp, tgt |-> target_amp, raw |-> raw]

\* Mutant: only the name "experimental_ij" asks for the camera basis.
StatsNeedIj_exact(stat_groups) == "experimental_ij" \in stat_groups

\* The groups for which _calculate_stats_experimental measures, lines 299
\* and 308.
StatsNeedKnm(stat_groups) == "experimental_knm" \in stat_groups
StatsNeedIj(stat_groups) ==
    "experimental_ij" \in stat_groups \/ "experimental" \in stat_groups

\* update_stats(stat_groups), lines 319-333, with
\* _calculate_stats_experimental, lines 295-317.
update_stats(cs, cal, fl, tgt, tij, ij, knm, groups, frame, fail) ==
    LET raw == "raw_stats" \in DOMAIN fl /\ fl["raw_stats"]
        \* Hologram._calculate_stats_computational(stats, stat_groups)
        computational == groups \cap {"computational"}
        none == [err |-> NoError, img_ij |-> ij, img_knm |-> knm,
                 io |-> <<>>, got |-> FALSE]
        wrote == computational
                 \cup (IF StatsNeedKnm(groups) THEN {"experimental_knm"} ELSE {})
                 \cup (IF StatsNeedIj(groups) THEN {"experimental_ij"} ELSE {})
    IN
    \* lines 299-300
    With(IF StatsNeedKnm(groups)
         THEN measure(cs, cal, fl, ij, knm, "knm", frame, fail)
         ELSE none, LAMBDA m1 :
    \* lines 308-309
    With(IF m1.err = NoError /\ StatsNeedIj(groups)
         THEN measure(cs, cal, fl, m1.img_ij, m1.img_knm, "ij", frame, fail)
         ELSE [none EXCEPT !.err = m1.err, !.img_ij = m1.img_ij,
                           !.img_knm = m1.img_knm], LAMBDA m2 :
       [err |-> m2.err, img_ij |-> m2.img_ij, img_knm |-> m2.img_knm,
        io |-> m1.io \o m2.io, got |-> m1.got \/ m2.got,
        \* the stats handed to Hologram._update_stats_dictionary(stats)
        written |-> IF m2.err # NoError THEN <<>>
                    ELSE [g \in wrote |->
                            IF g = "experimental_knm"
                            THEN _calculate_stats(m1.img_knm, tgt, raw)
                            ELSE IF g = "experimental_ij"
                            THEN _calculate_stats(m2.img_ij, tij, raw)
                            ELSE _calculate_stats(amp_ff, tgt, raw)]]))

\* ---------------------------------------------------------- construction
NoPoints == <<>>
NoShape == <<>>
\* The corners ll, lr, ur, ul, ll of the camera, lines 92-97, and the
\* calibration that toolbox maps them through, lines 98-101.
CamPoints(cs_shape, cal) ==
    [ij |-> << <<0, 0>>, <<0, cs_shape[1] - 1>>,
               <<cs_shape[2] - 1, cs_shape[1] - 1>>, <<cs_shape[2] - 1, 0>>,
               <<0, 0>> >>,
     cal |-> cal]

\* Mutant: line 68 is missing, a bare SLM stays bound.
BoundCameraSLM_kept(arg) == IF arg \in {"FourierSLM", "SLM"} THEN "FourierSLM" ELSE "None"

\* self.cameraslm after lines 54-74: kept for a composite controller, set
\* to None for a bare SLM.
BoundCameraSLM(arg) == IF arg = "FourierSLM" THEN "FourierSLM" ELSE "None"

\* __init__(shape, target_ij, cameraslm, **kwargs), lines 32-110: the state
\* it leaves.  arg is the kind of object passed as cameraslm, cal its
\* fourier_calibration, tij the target_ij passed, kwargs the keywords given.
Construct(arg, cal, tij, kwargs) ==
    LET cs == BoundCameraSLM(arg)
        amp == IF arg = "FourierSLM" THEN "cameraslm.slm._get_source_amplitude()"
               ELSE IF arg = "SLM" THEN "cameraslm._get_source_amplitude()"
               ELSE IF "amp" \in kwargs THEN "kwargs.amp" ELSE "None"
        slm_shape == IF arg = "FourierSLM" THEN "cameraslm.slm.shape"
                     ELSE IF arg = "SLM" THEN "cameraslm.shape" ELSE "None"
        kw == IF arg = "None" THEN kwargs \ {"amp"} ELSE kwargs
        passed_shape == IF "slm_shape" \in kw THEN "kwargs.slm_shape" ELSE slm_shape
        call == [Call("__init__", [cameraslm |-> arg, cal |-> cal, target_ij |-> tij,
                                   kwargs |-> kwargs])
                 EXCEPT !.super = <<amp, passed_shape>>]
        base == [pc |-> "ready", cameraslm |-> cs, fourier_calibration |-> cal,
                 cam_points |-> NoPoints, cam_shape |-> NoShape,
                 flags |-> <<>>, target_ij |-> tij, target |-> Zeros(shape),
                 weights |-> reset_weights,
                 img_ij |-> None, img_knm |-> None, ret |-> call]
        failed(e) == [base EXCEPT !.pc = "failed", !.ret.err = e]
    IN
    IF arg = "object"
    THEN [failed(CameraSLMError) EXCEPT !.ret.super = <<>>, !.target_ij = None]
    ELSE IF "amp" \in kw
    THEN [failed(TypeError) EXCEPT !.ret.super = <<>>, !.target_ij = None]
    ELSE IF cs # "None" /\ cal # NoCalibration
    THEN LET withcam == [base EXCEPT !.cam_points = CamPoints(cam_shape_of_cam, cal),
                                     !.cam_shape = cam_shape_of_cam]
         IN IF tij = None THEN withcam
            ELSE With(update_target(cs, cal, <<>>, base.target, base.weights,
                                    tij, TRUE), LAMBDA u :
                    IF u.err # NoError
                    THEN [withcam EXCEPT !.pc = "failed", !.ret.err = u.err,
                                         !.target = u.target]
                    ELSE [withcam EXCEPT !.target = u.target, !.weights = u.weights])
    ELSE base

\* ------------------------------------------------------------ Init, Next
\* The states __init__ leaves, over the arguments a caller can pass.
Init ==
    \E arg \in CameraSLMArgs, tij \in TargetIJs, kwargs \in KwargSets :
    \E cal \in IF arg = "FourierSLM" THEN {NoCalibration} \cup Calibrations
               ELSE {NoCalibration} :
        \E s \in {Construct(arg, cal, tij, kwargs)} :
           /\ pc = s.pc
           /\ cameraslm = s.cameraslm
           /\ fourier_calibration = s.fourier_calibration
           /\ cam_points = s.cam_points
           /\ cam_shape = s.cam_shape
           /\ flags = s.flags
           /\ target_ij = s.target_ij
           /\ target = s.target
           /\ weights = s.weights
           /\ img_ij = s.img_ij
           /\ img_knm = s.img_knm
           /\ captures = 0
           /\ frame_got = None
           /\ ret = s.ret

Measure(basis, frame, fail) ==
    /\ pc = "ready"
    /\ ret = Idle
    /\ \E m \in {measure(cameraslm, fourier_calibration, flags, img_ij, img_knm,
                        basis, frame, fail)} :
          /\ img_ij' = m.img_ij
          /\ img_knm' = m.img_knm
          /\ captures' = IF m.got THEN captures + 1 ELSE captures
          /\ frame_got' = IF m.got THEN frame ELSE frame_got
          /\ ret' = [Call("measure", basis) EXCEPT
                        !.err = m.err, !.io = m.io,
                        !.pre_ij = img_ij # None, !.pre_knm = img_knm # None]
    /\ UNCHANGED <<pc, cameraslm, fourier_calibration, cam_points, cam_shape, flags,
                   target_ij, target, weights>>

UpdateTarget(new_target, reset) ==
    /\ pc = "ready"
    /\ ret = Idle
    /\ \E u \in {update_target(cameraslm, fourier_calibration, flags, target,
                                weights, new_target, reset)} :
          /\ target' = u.target
          /\ weights' = u.weights
          /\ ret' = [Call("update_target", [new_target |-> new_target,
                                             reset_weights |-> reset])
                     EXCEPT !.err = u.err, !.input = u.input,
                            !.transform = u.transform,
                            !.pre_ij = img_ij # None, !.pre_knm = img_knm # None]
    /\ UNCHANGED <<pc, cameraslm, fourier_calibration, cam_points, cam_shape, flags,
                   target_ij, img_ij, img_knm, captures, frame_got>>

UpdateWeights(frame, fail) ==
    /\ pc = "ready"
    /\ ret = Idle
    /\ weights < MaxUpdates
    /\ \E u \in {_update_weights(cameraslm, fourier_calibration, flags, target,
                                  weights, img_ij, img_knm, frame, fail)} :
          /\ weights' = u.weights
          /\ img_ij' = u.img_ij
          /\ img_knm' = u.img_knm
          /\ captures' = IF u.got THEN captures + 1 ELSE captures
          /\ frame_got' = IF u.got THEN frame ELSE frame_got
          /\ ret' = [Call("_update_weights", flags) EXCEPT
                        !.err = u.err, !.io = u.io, !.generic = u.generic,
                        !.pre_ij = img_ij # None, !.pre_knm = img_knm # None]
    /\ UNCHANGED <<pc, cameraslm, fourier_calibration, cam_points, cam_shape, flags,
                   target_ij, target>>

UpdateStats(groups, frame, fail) ==
    /\ pc = "ready"
    /\ ret = Idle
    /\ \E u \in {update_stats(cameraslm, fourier_calibration, flags, target,
                               target_ij, img_ij, img_knm, groups, frame, fail)} :
          /\ img_ij' = u.img_ij
          /\ img_knm' = u.img_knm
          /\ captures' = IF u.got THEN captures + 1 ELSE captures
          /\ frame_got' = IF u.got THEN frame ELSE frame_got
          /\ ret' = [Call("update_stats", groups) EXCEPT
                        !.err = u.err, !.io = u.io, !.written = u.written,
                        !.pre_ij = img_ij # None, !.pre_knm = img_knm # None]
    /\ UNCHANGED <<pc, cameraslm, fourier_calibration, cam_points, cam_shape, flags,
                   target_ij, target, weights>>

RefineOffset(img, basis) ==
    /\ pc = "ready"
    /\ ret = Idle
    /\ ret' = [Call("refine_offset", [img |-> img, basis |-> basis])
               EXCEPT !.err = refine_offset(img, basis).err,
                      !.pre_ij = img_ij # None, !.pre_knm = img_knm # None]
    /\ UNCHANGED <<pc, cameraslm, fourier_calibration, cam_points, cam_shape, flags,
                   target_ij, target, weights, img_ij, img_knm, captures, frame_got>>

\* The caller (the optimization loop) clears both cached images at the start
\* of a feedback cycle.
Invalidate ==
    /\ pc = "ready"
    /\ ret = Idle
    /\ img_ij' = None
    /\ img_knm' = None
    /\ captures' = 0
    /\ frame_got' = None
    /\ ret' = Idle
    /\ UNCHANGED <<pc, cameraslm, fourier_calibration, cam_points, cam_shape, flags,
                   target_ij, target, weights>>

\* The caller (Hologram.optimize) sets the flags of the coming iterations.
SetFlags(fl) ==
    /\ pc = "ready"
    /\ ret = Idle
    /\ flags # fl
    /\ flags' = fl
    /\ ret' = Idle
    /\ UNCHANGED <<pc, cameraslm, fourier_calibration, cam_points, cam_shape,
                   target_ij, target, weights, img_ij, img_knm, captures, frame_got>>

\* The caller calibrates a composite controller that had no calibration.
Calibrate(cal) ==
    /\ pc = "ready"
    /\ ret = Idle
    /\ cameraslm = "FourierSLM"
    /\ fourier_calibration = NoCalibration
    /\ fourier_calibration' = cal
    /\ ret' = Idle
    /\ UNCHANGED <<pc, cameraslm, cam_points, cam_shape, flags,
                   target_ij, target, weights, img_ij, img_knm, captures, frame_got>>

\* A caller's own call of ijcam_to_knmslm, with its own input array and
\* (when out is not None) its own output buffer.
Transform(img, out, blur_ij, order) ==
    /\ pc = "ready"
    /\ ret = Idle
    /\ \E r \in {ijcam_to_knmslm(cameraslm, fourier_calibration, flags, img, out,
                                  blur_ij, order)} :
          ret' = [Call("ijcam_to_knmslm", [img |-> img, out |-> out,
                                            blur_ij |-> blur_ij, order |-> order])
                  EXCEPT !.err = r.err, !.result = r.ret, !.input = r.img,
                         !.out = r.out,
                         !.pre_ij = img_ij # None, !.pre_knm = img_knm # None]
    /\ UNCHANGED <<pc, cameraslm, fourier_calibration, cam_points, cam_shape, flags,
                   target_ij, target, weights, img_ij, img_knm, captures, frame_got>>

\* The call returns (or raises) to the caller, which goes on to its next call.
Return ==
    /\ pc = "ready"
    /\ ret # Idle
    /\ ret' = Idle
    /\ UNCHANGED <<pc, cameraslm, fourier_calibration, cam_points, cam_shape, flags,
                   target_ij, target, weights, img_ij, img_knm, captures, frame_got>>

Next ==
    \/ Return
    \/ \E basis \in {"ij", "knm"}, fail \in 0 .. 3 :
          \E frame \in FramesFor(fail) : Measure(basis, frame, fail)
    \/ \E new_target \in Targets, reset \in BOOLEAN : UpdateTarget(new_target, reset)
    \/ \E fail \in 0 .. 3 : \E frame \in FramesFor(fail) : UpdateWeights(frame, fail)
    \/ \E groups \in StatGroups, fail \in 0 .. 3 :
          \E frame \in FramesFor(fail) : UpdateStats(groups, frame, fail)
    \/ \E img \in Frames, basis \in Bases : RefineOffset(img, basis)
    \/ Invalidate
    \/ \E fl \in FlagSets : SetFlags(fl)
    \/ \E cal \in Calibrations : Calibrate(cal)

Spec == Init /\ [][Next]_vars

\* The transform on its own: a caller's calls of ijcam_to_knmslm and of
\* update_target on every instance, with any flags.
Images == Frames \cup {Zeros(cam_shape_of_cam)}
OutBuffers == {None, amp_ff}
NextTransform ==
    \/ Return
    \/ \E img \in Images, out \in OutBuffers, blur_ij \in {<<>>, <<0>>, <<1>>},
          order \in {0, 3} : Transform(img, out, blur_ij, order)
    \/ \E new_target \in Targets, reset \in BOOLEAN : UpdateTarget(new_target, reset)
    \/ \E fl \in FlagSets : SetFlags(fl)
    \/ \E cal \in Calibrations : Calibrate(cal)

SpecTransform == Init /\ [][NextTransform]_vars

\* ================================================================= claims
Calibrated == cameraslm = "FourierSLM" /\ fourier_calibration # NoCalibration

\* C1: in every state reachable by measure, update_target, _update_weights,
\* update_stats and the caller's clearing of both caches, img_knm is never
\* populated while img_ij is absent; construction leaves both absent.
C1_KnmOnlyWithIj ==
    /\ img_ij = None => img_knm = None
    /\ ret.op = "__init__" => img_ij = None /\ img_knm = None
\* A measure("knm") that a device failure stops leaves both caches absent.
C1_Witness ==
    /\ ret.op = "measure" /\ ret.arg = "knm" /\ ret.err = IOError
    /\ img_ij = None /\ img_knm = None

\* C2: once a frame is cached no call takes another one until the caller
\* clears the caches: at most one frame is got between two clearings, it is
\* got exactly when img_ij is populated, a measure call that finds img_ij
\* cached makes no device call, and one that finds it absent (and meets no
\* device failure) makes the write, flush, get_image sequence exactly once.
C2_CaptureOnce ==
    /\ captures <= 1
    /\ captures = 1 <=> img_ij # None
    /\ ret.op = "measure" /\ ret.pre_ij => ret.io = <<>>
    /\ ret.op = "measure" /\ ~ret.pre_ij /\ ret.err \notin {IOError, AttributeError}
         => ret.io = DeviceCalls
\* The second of two measure("ij") calls: the frame was cached, one frame
\* was got in all.
C2_Witness ==
    /\ ret.op = "measure" /\ ret.arg = "ij" /\ ret.pre_ij /\ ~ret.pre_knm
    /\ ret.io = <<>> /\ captures = 1

\* C3: _update_weights with a feedback flag other than "computational" and
\* "experimental" ends in an error; it never returns normally.
C3_UnknownModeRaises ==
    ( /\ ret.op = "_update_weights"
      /\ "feedback" \in DOMAIN ret.arg
      /\ ret.arg["feedback"] \notin {"computational", "experimental"} )
    => ret.err # NoError

\* C4: after a successful measure("knm"), with any blur, img_knm is the
\* square root of ijcam_to_knmslm applied to the square of img_ij.
C4_BasisConsistency ==
    (ret.op = "measure" /\ ret.arg = "knm" /\ ret.err = NoError)
    => \E r \in {ijcam_to_knmslm(cameraslm, fourier_calibration, flags,
                                  Square(img_ij), None, <<>>, 3)} :
          r.err = NoError /\ img_knm = Sqrt(r.ret)

\* C5: whenever img_ij is populated it holds the amplitude, the square root
\* of the frame the camera returned, also after a measure("knm") whose
\* transform raised.
C5_CachedAmplitude ==
    img_ij # None => SameImage(img_ij, Sqrt(frame_got))

\* C6: _update_weights with feedback = "experimental" makes the device calls
\* of exactly one capture when img_ij is absent and none when it is cached,
\* and in both cases hands the populated img_knm and the target to
\* _update_weights_generic.
C6_ExperimentalFeedback ==
    ( /\ ret.op = "_update_weights"
      /\ "feedback" \in DOMAIN ret.arg
      /\ ret.arg["feedback"] = "experimental" )
    => /\ ret.pre_ij => ret.io = <<>>
       /\ ~ret.pre_ij /\ ret.err = NoError => ret.io = DeviceCalls
       /\ ret.err = NoError =>
            /\ img_knm # None
            /\ ret.generic = <<img_knm, target>>
       /\ ret.err # NoError => ret.generic = <<>>
\* Experimental feedback that found img_ij cached and img_knm absent.
C6_Witness ==
    /\ ret.op = "_update_weights" /\ ret.err = NoError
    /\ ret.pre_ij /\ ~ret.pre_knm /\ ret.io = <<>>
    /\ ret.generic = <<img_knm, target>> /\ img_knm # None

\* C7: on an instance calibrated at construction, after __init__ and after
\* update_target calls, exactly one holds: target_ij is None, or target is
\* the transform (order 0) of the current target_ij.
TargetFromTargetIJ ==
    /\ target_ij # None
    /\ \E r \in {ijcam_to_knmslm(cameraslm, fourier_calibration, flags, target_ij,
                                  None, <<>>, 0)} :
          r.err = NoError /\ target = r.ret
C7_TargetDerived ==
    (pc = "ready" /\ Calibrated /\ cam_points # NoPoints
        /\ ret.op \in {"__init__", "update_target"})
    => (target_ij = None) # TargetFromTargetIJ

C9_UnitPowerOrError ==
    (ret.op = "ijcam_to_knmslm" /\ Calibrated)
    => \A resampled \in {Resampled(fourier_calibration, flags, ret.arg.img,
                                     ret.arg.blur_ij, ret.arg.order)} :
          /\ NormIsZero(resampled) <=> ret.err = NoPowerError
          /\ ret.err = NoPowerError => ret.result = None
          /\ ret.err # NoPowerError =>
                /\ ret.err = NoError
                /\ ret.result # None
                /\ Power(ret.result)[2] > 0
                /\ Power(ret.result)[1] = Power(ret.result)[2]
\* A lit frame that the calibration maps outside the computational grid.
C9_Witness ==
    /\ ret.op = "ijcam_to_knmslm" /\ Calibrated
    /\ ret.err = NoPowerError
    /\ ret.arg.img = HotFrame(<<1, 1>>, MaxPix)

\* C10: ijcam_to_knmslm on an instance without cameraslm or without
\* calibration fails its assert before anything is computed: nothing is
\* returned, and the output buffer and the input array are as they were.
C10_NotCalibratedRejected ==
    (ret.op = "ijcam_to_knmslm" /\ ~Calibrated)
    => /\ ret.err = AssertionError
       /\ ret.result = None
       /\ ret.out = ret.arg.out
       /\ ret.input = ret.arg.img
\* An uncalibrated composite controller, a call with an output buffer.
C10_Witness ==
    /\ ret.op = "ijcam_to_knmslm"
    /\ cameraslm = "FourierSLM" /\ fourier_calibration = NoCalibration
    /\ ret.arg.out # None /\ ret.arg.blur_ij = <<1>>
    /\ ret.err = AssertionError

\* C11: update_stats filters the group names.  When it returns,
\* "experimental_knm" has filled img_knm and written the "experimental_knm"
\* record from it, and "experimental_ij" or "experimental" has filled img_ij
\* and written the "experimental_ij" record from it; a request with none of
\* the three names raises nothing, makes no device call, leaves img_ij and
\* img_knm as they were and writes no experimental record.
ExperimentalNames == {"experimental_knm", "experimental_ij", "experimental"}
C11_StatsGroupFilter ==
    [][ ret'.op = "update_stats" =>
          LET g == ret'.arg
              w == ret'.written
          IN /\ (ret'.err = NoError /\ "experimental_knm" \in g)
                  => /\ img_knm' # None
                     /\ "experimental_knm" \in DOMAIN w
                     /\ w["experimental_knm"].amp = img_knm'
             /\ (ret'.err = NoError
                    /\ ("experimental_ij" \in g \/ "experimental" \in g))
                  => /\ img_ij' # None
                     /\ "experimental_ij" \in DOMAIN w
                     /\ w["experimental_ij"].amp = img_ij'
             /\ "experimental_knm" \notin g => "experimental_knm" \notin DOMAIN w
             /\ ("experimental_ij" \notin g /\ "experimental" \notin g)
                  => "experimental_ij" \notin DOMAIN w
             /\ g \cap ExperimentalNames = {}
                  => /\ ret'.err = NoError
                     /\ ret'.io = <<>>
                     /\ img_ij' = img_ij /\ img_knm' = img_knm
                     /\ captures' = captures
        ]_vars
\* A request with an unknown name and "computational" only, on a cache
\* that holds a frame.
C11_Witness ==
    /\ ret.op = "update_stats" /\ ret.arg = {"computational", "experimental_typo"}
    /\ ret.err = NoError /\ ret.io = <<>>
    /\ DOMAIN ret.written = {"computational"}
    /\ img_ij # None

\* C12: a device or camera error during a fresh capture reaches the caller
\* with no retry: the calls made are write, flush, get_image in turn up to
\* the one that raised, each once and none after it; img_ij stays None, no
\* frame is counted, and a measure call that finds img_ij None on an
\* instance with a device starts a fresh capture with the write.
C12_IOErrorNoRetry ==
    [][ /\ (ret'.op \in {"measure", "_update_weights", "update_stats"}
              /\ ret'.err = IOError)
            => /\ img_ij = None /\ img_ij' = None
               /\ captures' = captures /\ frame_got' = frame_got
               /\ \E n \in 1 .. 3 : ret'.io = SubSeq(DeviceCalls, 1, n)
        /\ (ret'.op = "measure" /\ img_ij = None /\ cameraslm # "None")
            => /\ Len(ret'.io) >= 1
               /\ ret'.io[1] = "slm.write(settle=True)"
        /\ (ret'.op = "measure" /\ ret'.err = IOError) => ~ret'.pre_ij
      ]_vars
\* cam.flush() raised: the write and the flush were made, get_image was not.
C12_Witness ==
    /\ ret.op = "measure" /\ ret.err = IOError
    /\ ret.io = <<"slm.write(settle=True)", "cam.flush()">>
    /\ img_ij = None /\ captures = 0

\* C13: refine_offset raises NotImplementedError for every image and every
\* basis, on every instance, and leaves target, target_ij, weights, img_ij
\* and img_knm as they were.
C13_RefineOffsetNotSupported ==
    [][ ret'.op = "refine_offset" =>
          /\ ret'.err = NotImplementedError
          /\ ret'.io = <<>>
          /\ UNCHANGED <<target, target_ij, weights, img_ij, img_knm>>
      ]_vars
\* refine_offset in the "knm" basis on an instance that holds both caches.
C13_Witness ==
    /\ ret.op = "refine_offset" /\ ret.arg.basis = "knm"
    /\ ret.err = NotImplementedError
    /\ img_ij # None /\ img_knm # None

\* C14: the two cached images form the state machine {empty, camera_only,
\* both}.  For a measure call that returns: from empty, "ij" leads to
\* camera_only and "knm" to both, with one capture; from camera_only, "ij"
\* changes nothing and "knm" leads to both, with no device call and img_ij
\* kept; from both, either call changes nothing.  img_knm is never held
\* without img_ij, and a measure("ij") that takes a fresh frame leaves
\* img_knm None whatever it held.
CacheState(ij, knm) ==
    IF ij = None THEN (IF knm = None THEN "empty" ELSE "knm_only")
    ELSE IF knm = None THEN "camera_only" ELSE "both"
C14_CacheStateMachine ==
    [][ /\ CacheState(img_ij', img_knm') \in {"empty", "camera_only", "both"}
        /\ (ret'.op = "measure" /\ ret'.err = NoError) =>
             LET from == CacheState(img_ij, img_knm)
                 to == CacheState(img_ij', img_knm')
                 basis == ret'.arg
             IN /\ (from = "empty" /\ basis = "ij")
                     => to = "camera_only" /\ ret'.io = DeviceCalls
                /\ (from = "empty" /\ basis = "knm")
                     => to = "both" /\ ret'.io = DeviceCalls
                /\ (from = "camera_only" /\ basis = "ij")
                     => to = "camera_only" /\ ret'.io = <<>> /\ img_ij' = img_ij
                /\ (from = "camera_only" /\ basis = "knm")
                     => to = "both" /\ ret'.io = <<>> /\ img_ij' = img_ij
                /\ from = "both"
                     => /\ ret'.io = <<>>
                        /\ img_ij' = img_ij /\ img_knm' = img_knm
        /\ cameraslm # "None" =>
             \A frame \in Frames :
                measure(cameraslm, fourier_calibration, flags, None, amp_ff,
                        "ij", frame, 0).img_knm = None
      ]_vars
\* measure("knm") took the cache from camera_only to both with no capture.
C14_Witness ==
    /\ ret.op = "measure" /\ ret.arg = "knm" /\ ret.err = NoError
    /\ ret.pre_ij /\ ~ret.pre_knm /\ ret.io = <<>>
    /\ CacheState(img_ij, img_knm) = "both"

\* C15: the device calls of every call are, in this order, the write of the
\* phase with settle=True, the flush of the camera and one get_image (or
\* the part of that sequence made before a device raised); a frame is
\* counted only after all three, so no image is taken before the write and
\* the flush of its capture.
C15_WriteFlushGet ==
    /\ \E n \in 0 .. 3 :
          ret.io = SubSeq(<<"slm.write(settle=True)", "cam.flush()",
                            "cam.get_image()">>, 1, n)
    /\ (ret.op \in {"measure", "_update_weights", "update_stats"}
         /\ ~ret.pre_ij /\ img_ij # None)
        => ret.io = <<"slm.write(settle=True)", "cam.flush()", "cam.get_image()">>
\* A fresh capture by measure("ij"): the three calls, in order.
C15_Witness ==
    /\ ret.op = "measure" /\ ret.arg = "ij" /\ ~ret.pre_ij
    /\ ret.io = <<"slm.write(settle=True)", "cam.flush()", "cam.get_image()">>
    /\ img_ij # None /\ captures = 1

\* C16: ijcam_to_knmslm writes nothing but its output buffer: with any
\* blur, the array the caller passed as img holds after the call what it
\* held before, and img_ij, img_knm, target_ij and weights are as they were.
C16_InputUntouched ==
    [][ ret'.op = "ijcam_to_knmslm" =>
          /\ SameImage(ret'.input, ret'.arg.img)
          /\ UNCHANGED <<img_ij, img_knm, target_ij, weights>>
      ]_vars

\* C17: update_target runs ijcam_to_knmslm with order 0 into the buffer
\* self.target, which afterwards holds what that call wrote; the weights
\* are reset when reset_weights is true (and the transform returned) and are
\* as they were when it is false; no device call is made, no frame is taken
\* and img_ij and img_knm are as they were.
C17_UpdateTargetFrame ==
    [][ ret'.op = "update_target" =>
          /\ ret'.transform = [out |-> "self.target", order |-> 0]
          /\ \E r \in {ijcam_to_knmslm(cameraslm, fourier_calibration, flags,
                                        ret'.arg.new_target, target, <<>>, 0)} :
                ret'.err = r.err /\ target' = r.out
          /\ (ret'.arg.reset_weights /\ ret'.err = NoError) => weights' = reset_weights
          /\ (~ret'.arg.reset_weights \/ ret'.err # NoError) => weights' = weights
          /\ ret'.io = <<>>
          /\ UNCHANGED <<img_ij, img_knm, captures, frame_got>>
      ]_vars
\* update_target without reset_weights after a weight update, with both
\* images cached: the weights keep their update.
C17_Witness ==
    /\ ret.op = "update_target" /\ ~ret.arg.reset_weights /\ ret.err = NoError
    /\ weights = MaxUpdates
    /\ img_ij # None /\ img_knm # None

\* C18: _update_weights with feedback = "computational" hands amp_ff and
\* the target to _update_weights_generic and returns; it makes no device
\* call, takes no frame and leaves img_ij and img_knm as they were, whatever
\* they hold.
C18_ComputationalFeedback ==
    [][ ( /\ ret'.op = "_update_weights"
          /\ "feedback" \in DOMAIN ret'.arg
          /\ ret'.arg["feedback"] = "computational" )
        => /\ ret'.err = NoError
           /\ ret'.generic = <<amp_ff, target>>
           /\ weights' = _update_weights_generic(weights, amp_ff, target)
           /\ ret'.io = <<>>
           /\ UNCHANGED <<img_ij, img_knm, captures, frame_got, target>>
      ]_vars
\* Computational feedback on an instance that holds both cached images.
C18_Witness ==
    /\ ret.op = "_update_weights" /\ ret.err = NoError
    /\ "feedback" \in DOMAIN ret.arg /\ ret.arg["feedback"] = "computational"
    /\ ret.pre_ij /\ ret.pre_knm /\ ret.io = <<>>
    /\ ret.generic = <<amp_ff, target>>

\* C19: one update_stats call makes the device calls of at most one
\* capture, whatever groups it is given.  Given "experimental_knm" together
\* with "experimental_ij" or "experimental" on an empty cache, a call that
\* returns has taken exactly one frame, holds img_ij and img_knm both derived
\* from that frame, and has written both records from them.
C19_OneCapturePerStats ==
    ret.op = "update_stats" =>
      /\ Len(ret.io) <= 3
      /\ captures <= 1
      /\ ( /\ ret.err = NoError /\ ~ret.pre_ij
            /\ "experimental_knm" \in ret.arg
            /\ ("experimental_ij" \in ret.arg \/ "experimental" \in ret.arg) )
          => /\ ret.io = DeviceCalls
             /\ captures = 1
             /\ img_ij # None /\ img_knm # None
             /\ \E r \in {ijcam_to_knmslm(cameraslm, fourier_calibration, flags,
                                           frame_got, None, <<>>, 3)} :
                   img_knm = Sqrt(r.ret) /\ img_ij = Sqrt(r.img)
             /\ ret.written["experimental_knm"].amp = img_knm
             /\ ret.written["experimental_ij"].amp = img_ij
\* Both experimental groups requested on an empty cache.
C19_Witness ==
    /\ ret.op = "update_stats" /\ ret.err = NoError /\ ~ret.pre_ij
    /\ ret.arg = {"experimental_knm", "experimental_ij"}
    /\ ret.io = DeviceCalls /\ captures = 1
    /\ img_ij # None /\ img_knm # None

====
